---- MODULE Spec2Model ----
(***************************************************************************)
(* Model of the product importer (productimporter/product): the CSV        *)
(* ingestion run process_csv_file, the batch upsert process_batch, the     *)
(* Product / ImportSession tables, upload_csv and get_progress, the        *)
(* product API (single-record and multi-record deletes), the event         *)
(* dispatcher trigger_webhooks and the Webhook test deliveries.            *)
(***************************************************************************)
EXTENDS Integers, Sequences, FiniteSets, Bags, TLC

VARIABLES
    sessions,     \* ImportSession table: session_id -> persisted row
    run,          \* process_csv_file threads: session_id -> locals and position
    products,     \* Product table: set of rows
    next_id,      \* Product table: next auto-increment primary key
    events,       \* bag of the events handed to trigger_webhooks
    api,          \* single-record API requests: request -> position and locals
    last_batch,   \* history: the most recent process_batch call
    faults_left,  \* transient faults the environment may still inject
    webhooks,     \* Webhook table: id -> row
    deliveries,   \* the send_webhook_notification threads started so far
    last_trigger, \* history: the most recent trigger_webhooks call
    clock         \* the time read by timezone.now()

vars == <<sessions, run, products, next_id, events, api, last_batch, faults_left,
          webhooks, deliveries, last_trigger, clock>>

\* The Webhook table, the delivery threads and the clock.
hooks == <<webhooks, deliveries, last_trigger, clock>>

----------------------------------------------------------------------------
(* Bounds of the model *)

MaxRows == 3            \* longest uploaded file, in lines after the header
MaxFaults == 2          \* transient faults injected during one behaviour

(* Program constants.  batch_size is 1000, the checkpoint interval 100 and *)
(* the error-log cap 100 in the source; they are scaled down here, keeping *)
(* every one of them reachable with files of MaxRows lines.                *)
batch_size == 2
checkpoint_every == 2
error_log_cap == 2
max_digits == 10
decimal_places == 2

SessionIds == {"s1", "s2"}

----------------------------------------------------------------------------
(* Text helpers: str.strip, str.upper and Decimal(text) on the texts that  *)
(* occur in the sample files.                                              *)

None == "<None>"

strip(t) ==
    CASE t = " a1" -> "a1"
      [] t = "  "  -> ""
      [] OTHER     -> t

upper(t) ==
    CASE t = "a1" -> "A1"
      [] t = "b2" -> "B2"
      [] OTHER    -> t

InvalidOperation == [ok |-> FALSE, units |-> 0, cents |-> 0]

\* A parsed Decimal is units + cents/100; a negative amount has units < 0.
Decimal(t) ==
    CASE t = "5.00"      -> [ok |-> TRUE, units |-> 5, cents |-> 0]
      [] t = "9.99"      -> [ok |-> TRUE, units |-> 9, cents |-> 99]
      [] t = "-1"        -> [ok |-> TRUE, units |-> -1, cents |-> 0]
      [] t = "100000000" -> [ok |-> TRUE, units |-> 100000000, cents |-> 0]
      [] OTHER           -> InvalidOperation

----------------------------------------------------------------------------
(* Uploaded files: the lines after the header.  A line is a parsed record, *)
(* a blank line (counted by the line count, skipped by csv.DictReader), or *)
(* a line on which the csv reader raises csv.Error.                        *)

Line(sku, name, price, description) ==
    [csv |-> "row", sku |-> sku, name |-> name, price |-> price,
     description |-> description]

BlankLine == [csv |-> "blank", sku |-> "", name |-> "", price |-> "",
              description |-> ""]
BadLine   == [csv |-> "error", sku |-> "", name |-> "", price |-> "",
              description |-> ""]

SampleLines ==
    { Line(" a1", "Widget", "5.00", ""),         \* valid, needs strip and upper
      Line("A1", "Widget2", "9.99", "new"),      \* valid, same identifier
      Line("a1", "Widget2", "-1", ""),           \* negative amount
      Line("  ", "Widget", "abc", ""),           \* identifier empty after strip
      Line("b2", "Gadget", "abc", ""),           \* unparseable amount
      Line("b2", "Gadget", "100000000", ""),     \* parses, exceeds the column
      Line("b2", "Gadget", "9.99", None),        \* short record: a field is None
      BlankLine,
      BadLine }

SeqsUpTo(S, n) == UNION { [1..k -> S] : k \in 0..n }

Files == SeqsUpTo(SampleLines, MaxRows)

----------------------------------------------------------------------------
(* Row validation: the body of the row loop of process_csv_file up to the  *)
(* append to the batch.                                                    *)

\* row.get(...).strip() raises AttributeError when a field of the record is
\* None (a record shorter than the header).
HasNoneField(line) ==
    None \in {line.sku, line.name, line.price, line.description}

\* Decimal(price_str) raises InvalidOperation, or the amount is negative.
InvalidPrice(price_str) ==
    \/ ~Decimal(price_str).ok
    \/ Decimal(price_str).units < 0

product_data(line) ==
    [sku         |-> upper(strip(line.sku)),
     name        |-> strip(line.name),
     price       |-> [units |-> Decimal(strip(line.price)).units,
                      cents |-> Decimal(strip(line.price)).cents],
     description |-> strip(line.description),
     active      |-> TRUE]

\* The outcome of one record: "unexpected" (the inner except Exception),
\* "missing", "invalid_price", or "valid".
validate_row(line) ==
    IF HasNoneField(line) THEN "unexpected"
    ELSE IF strip(line.sku) = "" \/ strip(line.name) = "" \/ strip(line.price) = ""
         THEN "missing"
    ELSE IF InvalidPrice(strip(line.price)) THEN "invalid_price"
    ELSE "valid"

error_line(row_num, line, outcome) ==
    [row    |-> row_num,
     reason |-> outcome,
     value  |-> IF outcome = "invalid_price" THEN strip(line.price) ELSE ""]

----------------------------------------------------------------------------
(* The Product table.                                                      *)

\* DecimalField(max_digits = 10, decimal_places = 2): preparing the value for
\* the column raises when it needs more than max_digits digits.
FitsColumn(price) == price.units < 10 ^ (max_digits - decimal_places)

\* Product.save(): the identifier is stored upper-cased.
saved_sku(sku) == upper(sku)

\* Mutant: the column carries no unique constraint.
sku_never_taken(store, sku) == FALSE

\* The unique constraint on Product.sku.
sku_taken(store, sku) == \E p \in store : p.sku = sku

\* Product.objects.filter(sku = sku).exists()
sku_exists(store, sku) == \E p \in store : p.sku = sku

\* Mutant: every record is inserted as a new row, whatever the table holds.
always_insert(store, nid, data) ==
    IF ~FitsColumn(data.price)
    THEN [raised |-> TRUE, products |-> store, next_id |-> nid]
    ELSE [raised |-> FALSE,
          products |-> store \cup {[id |-> nid, sku |-> saved_sku(data.sku),
                                    name |-> data.name, price |-> data.price,
                                    description |-> data.description,
                                    active |-> data.active]},
          next_id |-> nid + 1]

\* Product.objects.update_or_create(sku = ..., defaults = {...}).
\* Result: raised, and the table afterwards.
update_or_create(store, nid, data) ==
    IF ~FitsColumn(data.price)
    THEN [raised |-> TRUE, products |-> store, next_id |-> nid]
    ELSE IF sku_exists(store, data.sku)
    THEN LET old == CHOOSE p \in store : p.sku = data.sku
             new == [old EXCEPT !.sku = saved_sku(old.sku),
                                !.name = data.name,
                                !.price = data.price,
                                !.description = data.description,
                                !.active = data.active]
         IN  [raised |-> FALSE, products |-> (store \ {old}) \cup {new},
              next_id |-> nid]
    ELSE IF sku_taken(store, saved_sku(data.sku))
    THEN [raised |-> TRUE, products |-> store, next_id |-> nid]
    ELSE [raised |-> FALSE,
          products |-> store \cup {[id |-> nid, sku |-> saved_sku(data.sku),
                                    name |-> data.name, price |-> data.price,
                                    description |-> data.description,
                                    active |-> data.active]},
          next_id |-> nid + 1]

\* The loop "for product_data in batch: try update_or_create ... except:
\* continue", from record i on; count is success_count.
RECURSIVE apply_each(_, _, _, _, _)
apply_each(store, nid, batch, i, count) ==
    IF i > Len(batch)
    THEN [products |-> store, next_id |-> nid, count |-> count]
    ELSE LET r == update_or_create(store, nid, batch[i])
         IN  apply_each(r.products, r.next_id, batch, i + 1,
                        IF r.raised THEN count ELSE count + 1)

BatchFaults == {"none", "begin", "commit"}

\* process_batch(batch).  fault: whether transaction.atomic() fails as a
\* whole, on entry ("begin") or when it commits ("commit", which rolls the
\* attempt back); either way the except branch applies the records one by
\* one, adding to the same success_count.
process_batch(store, nid, batch, fault) ==
    LET attempt == apply_each(store, nid, batch, 1, 0)
    IN  CASE fault = "none"   -> attempt
          [] fault = "begin"  -> apply_each(store, nid, batch, 1, 0)
          [] fault = "commit" -> apply_each(store, nid, batch, 1, attempt.count)

----------------------------------------------------------------------------
(* The environment: a database or thread operation may raise a transient   *)
(* fault while the budget lasts.                                           *)

MayFail == faults_left > 0

\* The outcomes of an operation that may raise: TRUE is success.
Outcomes == IF MayFail THEN BOOLEAN ELSE {TRUE}

Spend(fault) == IF fault THEN faults_left - 1 ELSE faults_left

----------------------------------------------------------------------------
(* The event dispatcher: the Webhook table, trigger_webhooks and the        *)
(* send_webhook_notification threads it starts.                            *)

EVENT_CHOICES ==
    {"product_created", "product_updated", "product_deleted",
     "bulk_import_completed", "bulk_delete_completed"}

\* last_test_response_code = None, and the code of an attempt without a
\* response.
NoCode == 0

\* The outcome of requests.post(url, ..., timeout = 10): a response with a
\* status code, or a RequestException (timeout, connection error).
RequestException == [raised |-> TRUE, code |-> NoCode, time |-> 10]

Response(code) == [raised |-> FALSE, code |-> code, time |-> 1]

Responses(url) ==
    IF url = "down" THEN {RequestException}
    ELSE {Response(200), Response(304), Response(500), RequestException}

\* Mutant: the lookup ignores is_active.
matching_any(table, kind) ==
    {h \in DOMAIN table : table[h].event_type = kind}

\* Webhook.objects.filter(event_type = event_type, is_active = True)
matching(table, kind) ==
    {h \in DOMAIN table : table[h].event_type = kind /\ table[h].is_active}

\* The first k of the rows found, in the order of the loop (Meta.ordering,
\* by name; the rows of the model are named in the order of their ids).
FirstOf(found, k) == {h \in found : Cardinality({g \in found : g < h}) < k}

\* How a trigger_webhooks call may go: it returns after starting a thread
\* for every row found, or it raises (the query, or a thread start) after
\* starting threads for fewer of them.
TriggerOutcomes(kind) ==
    LET n == Cardinality(matching(webhooks, kind))
    IN  {[raised |-> FALSE, started |-> n]} \cup
        (IF MayFail
         THEN {[raised |-> TRUE, started |-> k] :
                   k \in 0..(IF n = 0 THEN 0 ELSE n - 1)}
         ELSE {})

\* Mutant: the delivery is made inline and has ended when the call returns.
delivered_inline(no, h, table, kind) ==
    [no |-> no, hook |-> h, url |-> table[h].url, kind |-> kind,
     state |-> "failed", code |-> NoCode]

\* threading.Thread(target = send_webhook_notification, args = (webhook,
\* event_type, data)) and thread.start(): the thread holds the row as read.
started_thread(no, h, table, kind) ==
    [no |-> no, hook |-> h, url |-> table[h].url, kind |-> kind,
     state |-> "started", code |-> NoCode]

Publish(event) == events (+) SetToBag({event})

NoTrigger == [no |-> 0, kind |-> "", table |-> [x \in {} |-> x],
              started |-> {}, raised |-> FALSE]

\* trigger_webhooks(event_type, data), going as outcome says.
trigger_webhooks(event, outcome) ==
    LET no == last_trigger.no + 1
        started == FirstOf(matching(webhooks, event.kind), outcome.started)
    IN  /\ faults_left' = Spend(outcome.raised)
        /\ events' = IF outcome.raised THEN events ELSE Publish(event)
        /\ deliveries' = deliveries \cup
              {started_thread(no, h, webhooks, event.kind) : h \in started}
        /\ last_trigger' = [no |-> no, kind |-> event.kind, table |-> webhooks,
                            started |-> started, raised |-> outcome.raised]

\* send_webhook_notification, in its thread: one requests.post; an
\* exception is printed and swallowed, a response is not looked at.
send_webhook_notification ==
    /\ \E d \in deliveries :
         /\ d.state = "started"
         /\ \E r \in Responses(d.url) :
              deliveries' = (deliveries \ {d}) \cup
                  {[d EXCEPT !.state = IF r.raised THEN "failed" ELSE "delivered",
                             !.code = r.code]}
    /\ UNCHANGED <<sessions, run, products, next_id, events, api, last_batch,
                   faults_left, webhooks, last_trigger, clock>>

----------------------------------------------------------------------------
(* The ImportSession table and the ingestion run.                          *)

EmptyMap == [x \in {} |-> x]

Put(f, k, v) == [x \in DOMAIN f \cup {k} |-> IF x = k THEN v ELSE f[x]]

\* The line count of the upload minus the header line.
total_rows_of(content) == (Len(content) + 1) - 1

new_session(content) ==
    [status |-> "pending", total_rows |-> total_rows_of(content),
     processed_rows |-> 0, success_count |-> 0, error_count |-> 0,
     error_log |-> <<>>]

new_run(content, baseline) ==
    [pc |-> "start", content |-> content, idx |-> 0, batch |-> <<>>,
     processed_count |-> 0, success_count |-> 0, error_count |-> 0,
     errors |-> <<>>, session |-> new_session(content),
     handed |-> <<>>,            \* history: the records given to process_batch
     returned |-> 0,             \* history: the sum of its return values
     baseline |-> baseline,      \* history: the Product table at a resubmission
     faulted |-> FALSE,          \* history: an operation of the run raised
     session_fault |-> FALSE]    \* history: an ImportSession read or write raised

\* ImportSession.objects.create(...) and the start of the thread running
\* process_csv_file.
accept(s, content, baseline) ==
    /\ sessions' = Put(sessions, s, new_session(content))
    /\ run' = Put(run, s, new_run(content, baseline))

\* upload_csv, for a submission it accepts.
upload_csv(s, files) ==
    /\ s \notin DOMAIN sessions
    /\ \E content \in files : accept(s, content, {})
    /\ UNCHANGED <<products, next_id, events, api, last_batch, faults_left>>
    /\ UNCHANGED hooks

At(s, pc) == s \in DOMAIN run /\ run[s].pc = pc

\* Mutant: no path of the loop body saves a checkpoint.
never_checkpoint(processed_count, checkpoint_pc) == "loop"

\* Where the loop body goes after a row: the "if processed_count % 100 == 0"
\* test in front of each checkpoint save.
after_row(processed_count, checkpoint_pc) ==
    IF processed_count % checkpoint_every = 0 THEN checkpoint_pc ELSE "loop"

\* The run marked as having met a fault of the session table.
session_faulted(r, pc) ==
    [r EXCEPT !.pc = pc, !.faulted = TRUE, !.session_fault = TRUE]

\* session = ImportSession.objects.get(...); session.status = 'processing';
\* session.save()
start_run(s) ==
    /\ At(s, "start")
    /\ \E outcome \in {"ok"} \cup
                        (IF MayFail THEN {"get_raises", "save_raises"} ELSE {}) :
         LET loaded == [sessions[s] EXCEPT !.status = "processing"]
         IN  /\ faults_left' = Spend(outcome # "ok")
             /\ sessions' = IF outcome = "ok"
                            THEN [sessions EXCEPT ![s] = loaded]
                            ELSE sessions
             /\ run' = [run EXCEPT ![s] =
                   CASE outcome = "ok" ->
                          [run[s] EXCEPT !.session = loaded, !.pc = "loop"]
                     [] outcome = "get_raises" ->
                          session_faulted(run[s], "handler")
                     [] outcome = "save_raises" ->
                          session_faulted([run[s] EXCEPT !.session = loaded],
                                          "handler")]
    /\ UNCHANGED <<products, next_id, events, api, last_batch>>
    /\ UNCHANGED hooks

\* The lines csv.DictReader still has to yield: blank lines are skipped.
remaining(r) ==
    {j \in (r.idx + 1)..Len(r.content) : r.content[j].csv # "blank"}

Min(S) == CHOOSE x \in S : \A y \in S : x <= y

\* One iteration of "for row_num, row in enumerate(csv_reader, start=2)" up
\* to the flush or the checkpoint it leads to, or the end of the stream.
\* csv.Error is raised by the iteration itself, outside the row's try block.
next_row(s) ==
    /\ At(s, "loop")
    /\ LET r == run[s]
       IN  IF remaining(r) = {}
           THEN run' = [run EXCEPT ![s].idx = Len(r.content),
                          ![s].pc = IF r.batch # <<>> THEN "final_flush"
                                    ELSE "finalize"]
           ELSE LET j == Min(remaining(r))
                    line == r.content[j]
                    n == r.processed_count + 1
                    outcome == validate_row(line)
                IN  IF line.csv = "error"
                    THEN run' = [run EXCEPT ![s].idx = j, ![s].pc = "handler"]
                    ELSE IF outcome = "valid"
                    THEN run' = [run EXCEPT
                            ![s].idx = j,
                            ![s].processed_count = n,
                            ![s].batch = Append(r.batch, product_data(line)),
                            ![s].pc = IF Len(r.batch) + 1 >= batch_size
                                      THEN "flush"
                                      ELSE after_row(n, "checkpoint")]
                    ELSE run' = [run EXCEPT
                            ![s].idx = j,
                            ![s].processed_count = n,
                            ![s].error_count = r.error_count + 1,
                            ![s].errors = Append(r.errors,
                                             error_line(n + 1, line, outcome)),
                            ![s].pc = after_row(n,
                                        IF outcome = "unexpected"
                                        THEN "checkpoint_exc" ELSE "checkpoint")]
    /\ UNCHANGED <<sessions, products, next_id, events, api, last_batch,
                   faults_left>>
    /\ UNCHANGED hooks

\* Mutant: the batch is not cleared after a flush.
batch_kept(batch) == batch

\* batch = []
batch_cleared(batch) == <<>>

\* batch_success = process_batch(batch); success_count += batch_success,
\* inside the loop (then batch = []) and after it.
flush_batch(s) ==
    /\ At(s, "flush") \/ At(s, "final_flush")
    /\ \E fault \in (IF MayFail THEN BatchFaults ELSE {"none"}) :
         LET r == run[s]
             res == process_batch(products, next_id, r.batch, fault)
         IN  /\ faults_left' = Spend(fault # "none")
             /\ products' = res.products
             /\ next_id' = res.next_id
             /\ last_batch' = [called |-> TRUE, batch |-> r.batch,
                               fault |-> fault, before |-> products,
                               after |-> res.products, returned |-> res.count]
             /\ run' = [run EXCEPT
                   ![s].success_count = r.success_count + res.count,
                   ![s].batch = batch_cleared(r.batch),
                   ![s].handed = r.handed \o r.batch,
                   ![s].returned = r.returned + res.count,
                   ![s].faulted = r.faulted \/ fault # "none",
                   ![s].pc = IF r.pc = "flush"
                             THEN after_row(r.processed_count, "checkpoint")
                             ELSE "finalize"]
    /\ UNCHANGED <<sessions, events, api>>
    /\ UNCHANGED hooks

\* session.processed_rows = processed_count; session.success_count = ...;
\* session.error_count = ...
checkpointed(session, r) ==
    [session EXCEPT !.processed_rows = r.processed_count,
                    !.success_count = r.success_count,
                    !.error_count = r.error_count]

\* The checkpoint save inside the row's try block.  When session.save()
\* raises, the row's "except Exception" counts one more error for the row
\* and goes on to its own checkpoint save.
checkpoint(s) ==
    /\ At(s, "checkpoint")
    /\ \E saved \in Outcomes :
         LET r == run[s]
             obj == checkpointed(r.session, r)
         IN  /\ faults_left' = Spend(~saved)
             /\ sessions' = IF saved THEN [sessions EXCEPT ![s] = obj]
                            ELSE sessions
             /\ run' = [run EXCEPT ![s] =
                   IF saved
                   THEN [r EXCEPT !.session = obj, !.pc = "loop"]
                   ELSE session_faulted(
                          [r EXCEPT
                             !.session = obj,
                             !.error_count = r.error_count + 1,
                             !.errors = Append(r.errors,
                                 [row |-> r.processed_count + 1,
                                  reason |-> "unexpected", value |-> ""])],
                          "checkpoint_exc")]
    /\ UNCHANGED <<products, next_id, events, api, last_batch>>
    /\ UNCHANGED hooks

\* The checkpoint save inside the row's "except Exception" block: when it
\* raises, the exception leaves the loop.
checkpoint_exc(s) ==
    /\ At(s, "checkpoint_exc")
    /\ \E saved \in Outcomes :
         LET r == run[s]
             obj == checkpointed(r.session, r)
         IN  /\ faults_left' = Spend(~saved)
             /\ sessions' = IF saved THEN [sessions EXCEPT ![s] = obj]
                            ELSE sessions
             /\ run' = [run EXCEPT ![s] =
                   IF saved
                   THEN [r EXCEPT !.session = obj, !.pc = "loop"]
                   ELSE session_faulted([r EXCEPT !.session = obj], "handler")]
    /\ UNCHANGED <<products, next_id, events, api, last_batch>>
    /\ UNCHANGED hooks

Take(seq, n) == SubSeq(seq, 1, IF Len(seq) < n THEN Len(seq) ELSE n)

\* Mutant: the error log is stored without the cap.
final_error_log_uncapped(old, errors) ==
    IF errors = <<>> THEN old ELSE errors

\* '\n'.join(errors[:100]) plus "... and N more errors"
final_error_log(old, errors) ==
    IF errors = <<>> THEN old
    ELSE IF Len(errors) > error_log_cap
    THEN Append(Take(errors, error_log_cap),
                [row |-> 0, reason |-> "more",
                 value |-> Len(errors) - error_log_cap])
    ELSE Take(errors, error_log_cap)

\* Mutant: the final processed_rows is the number of rows the loop counted.
final_processed_rows_counted(session, processed_count) == processed_count

\* session.processed_rows = session.total_rows
final_processed_rows(session, processed_count) == session.total_rows

finalized(session, r) ==
    [session EXCEPT
        !.processed_rows = final_processed_rows(session, r.processed_count),
        !.success_count = r.success_count,
        !.error_count = r.error_count,
        !.status = "completed",
        !.error_log = final_error_log(session.error_log, r.errors)]

\* The final update of the session and its save.
finalize(s) ==
    /\ At(s, "finalize")
    /\ \E saved \in Outcomes :
         LET r == run[s]
             obj == finalized(r.session, r)
         IN  /\ faults_left' = Spend(~saved)
             /\ sessions' = IF saved THEN [sessions EXCEPT ![s] = obj]
                            ELSE sessions
             /\ run' = [run EXCEPT ![s] =
                   IF saved
                   THEN [r EXCEPT !.session = obj, !.pc = "publish"]
                   ELSE session_faulted([r EXCEPT !.session = obj], "handler")]
    /\ UNCHANGED <<products, next_id, events, api, last_batch>>
    /\ UNCHANGED hooks

summary_of(session) ==
    [total_rows |-> session.total_rows,
     processed_rows |-> session.processed_rows,
     success_count |-> session.success_count,
     error_count |-> session.error_count]

\* trigger_webhooks('bulk_import_completed', {...}), still inside the try
\* block of process_csv_file: the subscription lookup or a thread start may
\* raise.
publish_completed(s) ==
    /\ At(s, "publish")
    /\ run[s].session.status = "completed"
    /\ \E outcome \in TriggerOutcomes("bulk_import_completed") :
         /\ trigger_webhooks([kind |-> "bulk_import_completed", key |-> s,
                              data |-> summary_of(run[s].session)], outcome)
         /\ run' = [run EXCEPT
               ![s].pc = IF outcome.raised THEN "handler" ELSE "done",
               ![s].faulted = run[s].faulted \/ outcome.raised]
    /\ UNCHANGED <<sessions, products, next_id, api, last_batch, webhooks,
                   clock>>

\* Mutant: the failure handler writes a fresh record instead of the stored one.
failed_reset(session) ==
    [session EXCEPT !.status = "failed", !.processed_rows = 0,
                    !.success_count = 0, !.error_count = 0,
                    !.error_log = <<[row |-> 0, reason |-> "failed",
                                     value |-> ""]>>]

\* session.status = 'failed'; session.error_log = "Processing failed: ..."
failed(session) ==
    [session EXCEPT !.status = "failed",
                    !.error_log = <<[row |-> 0, reason |-> "failed",
                                     value |-> ""]>>]

\* The outer "except Exception": the session is read again, marked failed
\* and saved; when that raises too, the bare except passes.
handler(s) ==
    /\ At(s, "handler")
    /\ \E recorded \in Outcomes :
         /\ faults_left' = Spend(~recorded)
         /\ sessions' = IF recorded
                        THEN [sessions EXCEPT ![s] = failed(sessions[s])]
                        ELSE sessions
         /\ run' = [run EXCEPT ![s] =
               IF recorded THEN [run[s] EXCEPT !.pc = "done"]
               ELSE session_faulted(run[s], "done")]
    /\ UNCHANGED <<products, next_id, events, api, last_batch>>
    /\ UNCHANGED hooks

process_csv_file(s) ==
    \/ start_run(s)
    \/ next_row(s)
    \/ flush_batch(s)
    \/ checkpoint(s)
    \/ checkpoint_exc(s)
    \/ finalize(s)
    \/ publish_completed(s)
    \/ handler(s)

----------------------------------------------------------------------------
(* upload_csv step by step, and get_progress.  A submission is refused,    *)
(* or its session is created, then the thread of its run is started, then  *)
(* it is acknowledged; polls and the run go on in between.                 *)

UploadRequests == {"f1", "f2"}
PollRequests == {"g1"}

\* The submissions upload_csv refuses, with the status it answers: the
\* tests in front of the try block, the DictReader header test, and the
\* exceptions its handler catches (UnicodeDecodeError of decode('utf-8');
\* TypeError on the fieldnames None of an empty file).
Refusals ==
    { [why |-> "no_file",        response |-> 400],
      [why |-> "bad_extension",  response |-> 400],
      [why |-> "oversize",       response |-> 400],
      [why |-> "undecodable",    response |-> 500],
      [why |-> "missing_column", response |-> 400],
      [why |-> "no_header",      response |-> 500] }

\* The session ids handed out so far: uuid.uuid4() never repeats one.
Issued ==
    DOMAIN sessions \cup {api[q].session_id : q \in DOMAIN api \cap UploadRequests}

\* The returns of upload_csv in front of ImportSession.objects.create.
upload_refused(q) ==
    /\ q \notin DOMAIN api
    /\ \E refusal \in Refusals :
         api' = Put(api, q, [op |-> "upload", why |-> refusal.why,
                             pc |-> "done", response |-> refusal.response,
                             session_id |-> None, content |-> <<>>,
                             total_rows |-> 0])
    /\ UNCHANGED <<sessions, run, products, next_id, events, last_batch,
                   faults_left>>
    /\ UNCHANGED hooks

\* Mutant: the session record is not written before the thread is started.
created_later(table, s, content) == table

\* ImportSession.objects.create(session_id = ..., total_rows = ...,
\* status = 'pending')
created(table, s, content) == Put(table, s, new_session(content))

\* upload_csv up to ImportSession.objects.create, which may raise.
upload_create(q, files) ==
    /\ q \notin DOMAIN api
    /\ \E s \in SessionIds \ Issued, content \in files, stored \in Outcomes :
         /\ faults_left' = Spend(~stored)
         /\ sessions' = IF stored THEN created(sessions, s, content)
                        ELSE sessions
         /\ api' = Put(api, q, [op |-> "upload", why |-> "accepted",
                                pc |-> IF stored THEN "thread" ELSE "done",
                                response |-> IF stored THEN 0 ELSE 500,
                                session_id |-> s, content |-> content,
                                total_rows |-> total_rows_of(content)])
    /\ UNCHANGED <<run, products, next_id, events, last_batch>>
    /\ UNCHANGED hooks

\* threading.Thread(target = process_csv_file, ...) and thread.start(),
\* which may raise; the handler of upload_csv then answers status 500.
upload_start(q) ==
    /\ q \in DOMAIN api /\ api[q].op = "upload" /\ api[q].pc = "thread"
    /\ \E started \in Outcomes :
         /\ faults_left' = Spend(~started)
         /\ run' = IF started
                   THEN Put(run, api[q].session_id,
                            new_run(api[q].content, {}))
                   ELSE run
         /\ api' = [api EXCEPT ![q].pc = IF started THEN "respond" ELSE "done",
                               ![q].response = IF started THEN 0 ELSE 500]
    /\ UNCHANGED <<sessions, products, next_id, events, last_batch>>
    /\ UNCHANGED hooks

\* The acknowledgement: success, session_id and total_rows.
upload_respond(q) ==
    /\ q \in DOMAIN api /\ api[q].op = "upload" /\ api[q].pc = "respond"
    /\ api' = [api EXCEPT ![q].pc = "done", ![q].response = 200]
    /\ UNCHANGED <<sessions, run, products, next_id, events, last_batch,
                   faults_left>>
    /\ UNCHANGED hooks

upload_request(q, files) ==
    \/ upload_refused(q)
    \/ upload_create(q, files)
    \/ upload_start(q)
    \/ upload_respond(q)

\* ImportSession.progress_percentage, in hundredths of a percent:
\* round(processed_rows / total_rows * 100, 2), and 0 without rows.
progress_percentage(session) ==
    IF session.total_rows = 0 THEN 0
    ELSE (2 * 10000 * session.processed_rows + session.total_rows)
             \div (2 * session.total_rows)

\* Mutant: the answer takes the status from the record as it was created.
progress_of_two_reads(session) ==
    [status |-> "pending", total_rows |-> session.total_rows,
     processed_rows |-> session.processed_rows,
     success_count |-> session.success_count,
     error_count |-> session.error_count,
     progress_percentage |-> progress_percentage(session),
     error_log |-> session.error_log]

\* The body of the answer of get_progress, from the one record it read.
progress_of(session) ==
    [status |-> session.status, total_rows |-> session.total_rows,
     processed_rows |-> session.processed_rows,
     success_count |-> session.success_count,
     error_count |-> session.error_count,
     progress_percentage |-> progress_percentage(session),
     error_log |-> session.error_log]

NotFound == [status |-> "not_found", total_rows |-> 0, processed_rows |-> 0,
             success_count |-> 0, error_count |-> 0,
             progress_percentage |-> 0, error_log |-> <<>>]

\* The session ids some submission has been acknowledged with.
Acknowledged ==
    {api[q].session_id : q \in {u \in DOMAIN api \cap UploadRequests :
                                  api[u].response = 200}}

\* get_progress(request, session_id): one ImportSession.objects.get, and
\* status 404 on DoesNotExist.
get_progress(q) ==
    /\ q \notin DOMAIN api
    /\ \E s \in SessionIds :
         api' = Put(api, q,
                    [op |-> "poll", pc |-> "done", session_id |-> s,
                     acknowledged |-> s \in Acknowledged,
                     response |-> IF s \in DOMAIN sessions THEN 200 ELSE 404,
                     result |-> IF s \in DOMAIN sessions
                                THEN progress_of(sessions[s]) ELSE NotFound])
    /\ UNCHANGED <<sessions, run, products, next_id, events, last_batch,
                   faults_left>>
    /\ UNCHANGED hooks

----------------------------------------------------------------------------
(* The single-record product API: create_product, update_product and       *)
(* delete_product.  A request reads the table, then writes it; other work  *)
(* may run in between.                                                     *)

OldA1 == [id |-> 1, sku |-> "A1", name |-> "Old",
          price |-> [units |-> 5, cents |-> 0], description |-> "old",
          active |-> FALSE]

CreateRequests == {"c1"}
UpdateRequests == {"u1"}
DeleteRequests == {"d1"}

CreatePayloads ==
    { [sku |-> "b2", name |-> "Manual", price |-> "5.00"],
      [sku |-> " a1", name |-> "Manual", price |-> "-1"],
      [sku |-> "b2", name |-> "  ", price |-> "5.00"] }

\* The keys present in the JSON body of an update, and their values.
UpdatePayloads ==
    { [keys |-> {"sku", "name"}, sku |-> "b2", name |-> "Renamed", price |-> ""],
      [keys |-> {"price"}, sku |-> "", name |-> "", price |-> "abc"] }

product_event(kind, obj) == [kind |-> kind, key |-> obj.sku, data |-> obj]

\* Mutant: the amount of a request is not checked.
price_unchecked(price_str) == FALSE

\* The amount check of create_product and update_product: Decimal(...)
\* raises InvalidOperation, or the amount is negative.
price_rejected(price_str) == InvalidPrice(price_str)

\* create_product up to the "SKU already exists" test.
begin_create(q) ==
    /\ q \notin DOMAIN api
    /\ \E data \in CreatePayloads :
         LET sku == upper(strip(data.sku))
             name == strip(data.name)
             price_str == strip(data.price)
             obj == [id |-> 0, sku |-> sku, name |-> name,
                     price |-> [units |-> Decimal(price_str).units,
                                cents |-> Decimal(price_str).cents],
                     description |-> "", active |-> TRUE]
             rejected == \/ sku = "" \/ name = "" \/ price_str = ""
                         \/ price_rejected(price_str)
                         \/ sku_exists(products, sku)
         IN  api' = Put(api, q, [op |-> "create", data |-> data, obj |-> obj,
                                 pc |-> IF rejected THEN "done" ELSE "write",
                                 response |-> IF rejected THEN 400 ELSE 0])
    /\ UNCHANGED <<sessions, run, products, next_id, events, last_batch,
                   faults_left>>
    /\ UNCHANGED hooks

\* Product.objects.create(...), trigger_webhooks('product_created', ...) and
\* the response; any exception is answered with status 500.
finish_create(q) ==
    /\ q \in DOMAIN api /\ api[q].op = "create" /\ api[q].pc = "write"
    /\ LET obj == [api[q].obj EXCEPT !.id = next_id, !.sku = saved_sku(@)]
           stored == FitsColumn(obj.price) /\ ~sku_taken(products, obj.sku)
       IN  IF stored
           THEN /\ products' = products \cup {obj}
                /\ next_id' = next_id + 1
                /\ \E outcome \in TriggerOutcomes("product_created") :
                     /\ trigger_webhooks(product_event("product_created", obj),
                                         outcome)
                     /\ api' = [api EXCEPT
                           ![q].pc = "done",
                           ![q].obj = obj,
                           ![q].response = IF outcome.raised THEN 500 ELSE 200]
           ELSE /\ api' = [api EXCEPT ![q].pc = "done", ![q].response = 500]
                /\ UNCHANGED <<products, next_id, events, faults_left,
                               deliveries, last_trigger>>
    /\ UNCHANGED <<sessions, run, last_batch, webhooks, clock>>

\* update_product up to product.save(): the row is read and the fields
\* present in the body are set on the object in memory.  Http404 of
\* get_object_or_404 is caught by the view's "except Exception".
begin_update(q) ==
    /\ q \notin DOMAIN api
    /\ \E id \in 1..next_id, data \in UpdatePayloads :
         IF ~\E p \in products : p.id = id
         THEN api' = Put(api, q, [op |-> "update", id |-> id, data |-> data,
                                  obj |-> OldA1, pc |-> "done",
                                  response |-> 500])
         ELSE LET product == CHOOSE p \in products : p.id = id
                  new_sku == upper(strip(data.sku))
                  sku_rejected == /\ "sku" \in data.keys
                                  /\ new_sku # product.sku
                                  /\ sku_exists(products, new_sku)
                  bad_price == /\ "price" \in data.keys
                               /\ price_rejected(data.price)
                  obj == [product EXCEPT
                            !.sku = IF "sku" \in data.keys THEN new_sku ELSE @,
                            !.name = IF "name" \in data.keys
                                     THEN strip(data.name) ELSE @,
                            !.price = IF "price" \in data.keys /\ ~bad_price
                                      THEN [units |-> Decimal(data.price).units,
                                            cents |-> Decimal(data.price).cents]
                                      ELSE @]
                  rejected == sku_rejected \/ bad_price
              IN  api' = Put(api, q, [op |-> "update", id |-> id,
                                      data |-> data,
                                      obj |-> IF rejected THEN product ELSE obj,
                                      pc |-> IF rejected THEN "done" ELSE "write",
                                      response |-> IF rejected THEN 400 ELSE 0])
    /\ UNCHANGED <<sessions, run, products, next_id, events, last_batch,
                   faults_left>>
    /\ UNCHANGED hooks

\* product.save(), trigger_webhooks('product_updated', ...) and the
\* response.  save() writes every field of the object read earlier, and
\* inserts the row when it is no longer in the table.
finish_update(q) ==
    /\ q \in DOMAIN api /\ api[q].op = "update" /\ api[q].pc = "write"
    /\ LET obj == [api[q].obj EXCEPT !.sku = saved_sku(@)]
           others == {p \in products : p.id # obj.id}
           stored == FitsColumn(obj.price) /\ ~sku_taken(others, obj.sku)
       IN  IF stored
           THEN /\ products' = others \cup {obj}
                /\ \E outcome \in TriggerOutcomes("product_updated") :
                     /\ trigger_webhooks(product_event("product_updated", obj),
                                         outcome)
                     /\ api' = [api EXCEPT
                           ![q].pc = "done",
                           ![q].obj = obj,
                           ![q].response = IF outcome.raised THEN 500 ELSE 200]
           ELSE /\ api' = [api EXCEPT ![q].pc = "done", ![q].response = 500]
                /\ UNCHANGED <<products, events, faults_left, deliveries,
                               last_trigger>>
    /\ UNCHANGED <<sessions, run, next_id, last_batch, webhooks, clock>>

\* delete_product up to product.delete(): the row is read.
begin_delete(q) ==
    /\ q \notin DOMAIN api
    /\ \E id \in 1..next_id :
         IF ~\E p \in products : p.id = id
         THEN api' = Put(api, q, [op |-> "delete", data |-> id, obj |-> OldA1,
                                  pc |-> "done", response |-> 500])
         ELSE api' = Put(api, q, [op |-> "delete", data |-> id,
                                  obj |-> CHOOSE p \in products : p.id = id,
                                  pc |-> "write", response |-> 0])
    /\ UNCHANGED <<sessions, run, products, next_id, events, last_batch,
                   faults_left>>
    /\ UNCHANGED hooks

\* product.delete(), trigger_webhooks('product_deleted', ...) with the row
\* as it was read, and the response.
finish_delete(q) ==
    /\ q \in DOMAIN api /\ api[q].op = "delete" /\ api[q].pc = "write"
    /\ products' = {p \in products : p.id # api[q].obj.id}
    /\ \E outcome \in TriggerOutcomes("product_deleted") :
         /\ trigger_webhooks(product_event("product_deleted", api[q].obj),
                             outcome)
         /\ api' = [api EXCEPT
               ![q].pc = "done",
               ![q].response = IF outcome.raised THEN 500 ELSE 200]
    /\ UNCHANGED <<sessions, run, next_id, last_batch, webhooks, clock>>

create_product(q) == begin_create(q) \/ finish_create(q)
update_product(q) == begin_update(q) \/ finish_update(q)
delete_product(q) == begin_delete(q) \/ finish_delete(q)

----------------------------------------------------------------------------
(* The deletes of several records: delete_selected_products and            *)
(* bulk_delete_products.                                                   *)

OldB2 == [id |-> 2, sku |-> "B2", name |-> "Other",
          price |-> [units |-> 9, cents |-> 99], description |-> "",
          active |-> TRUE]

SelectedRequests == {"e1"}
BulkRequests == {"k1"}

\* The product_ids of a delete_selected_products body; an empty list is
\* answered "No products selected".
Selections == { {}, {1}, {1, 2} }

\* delete_selected_products up to products_to_delete.delete(): the rows of
\* the selection are read into deleted_products.
begin_selected(q) ==
    /\ q \notin DOMAIN api
    /\ \E product_ids \in Selections :
         LET deleted_products == {p \in products : p.id \in product_ids}
         IN  api' = Put(api, q,
                 [op |-> "selected", data |-> product_ids,
                  obj |-> deleted_products, left |-> deleted_products,
                  removed |-> {},
                  pc |-> IF product_ids = {} THEN "done" ELSE "write",
                  response |-> IF product_ids = {} THEN 400 ELSE 0])
    /\ UNCHANGED <<sessions, run, products, next_id, events, last_batch,
                   faults_left>>
    /\ UNCHANGED hooks

\* products_to_delete.delete(): a new query, which removes the rows of the
\* selection that are in the table now.
delete_selected(q) ==
    /\ q \in DOMAIN api /\ api[q].op = "selected" /\ api[q].pc = "write"
    /\ products' = {p \in products : p.id \notin api[q].data}
    /\ api' = [api EXCEPT
          ![q].removed = {p.id : p \in products \ products'},
          ![q].pc = IF api[q].left = {} THEN "done" ELSE "publish",
          ![q].response = IF api[q].left = {} THEN 200 ELSE 0]
    /\ UNCHANGED <<sessions, run, next_id, events, last_batch, faults_left>>
    /\ UNCHANGED hooks

\* One turn of "for product_data in deleted_products: trigger_webhooks(
\* 'product_deleted', ...)", in the order of the rows read (by sku, which
\* is the order of the ids in the table of the model), and the response
\* after the last one.
publish_selected(q) ==
    /\ q \in DOMAIN api /\ api[q].op = "selected" /\ api[q].pc = "publish"
    /\ LET product == CHOOSE p \in api[q].left :
                          \A o \in api[q].left : p.id <= o.id
           left == api[q].left \ {product}
       IN  \E outcome \in TriggerOutcomes("product_deleted") :
             /\ trigger_webhooks(product_event("product_deleted", product),
                                 outcome)
             /\ api' = [api EXCEPT
                   ![q].left = left,
                   ![q].pc = IF outcome.raised \/ left = {} THEN "done"
                             ELSE "publish",
                   ![q].response = IF outcome.raised THEN 500
                                   ELSE IF left = {} THEN 200 ELSE 0]
    /\ UNCHANGED <<sessions, run, products, next_id, last_batch, webhooks,
                   clock>>

delete_selected_products(q) ==
    begin_selected(q) \/ delete_selected(q) \/ publish_selected(q)

\* bulk_delete_products up to Product.objects.all().delete(): the
\* confirmation test and count = Product.objects.count().
begin_bulk(q) ==
    /\ q \notin DOMAIN api
    /\ \E confirm \in BOOLEAN :
         api' = Put(api, q, [op |-> "bulk", data |-> confirm,
                             count |-> IF confirm THEN Cardinality(products)
                                       ELSE 0,
                             pc |-> IF confirm THEN "write" ELSE "done",
                             response |-> IF confirm THEN 0 ELSE 400])
    /\ UNCHANGED <<sessions, run, products, next_id, events, last_batch,
                   faults_left>>
    /\ UNCHANGED hooks

\* Product.objects.all().delete(), trigger_webhooks('bulk_delete_completed',
\* {total_deleted: count}) and the response.
finish_bulk(q) ==
    /\ q \in DOMAIN api /\ api[q].op = "bulk" /\ api[q].pc = "write"
    /\ products' = {}
    /\ \E outcome \in TriggerOutcomes("bulk_delete_completed") :
         /\ trigger_webhooks([kind |-> "bulk_delete_completed", key |-> q,
                              data |-> [total_deleted |-> api[q].count]],
                             outcome)
         /\ api' = [api EXCEPT
               ![q].pc = "done",
               ![q].response = IF outcome.raised THEN 500 ELSE 200]
    /\ UNCHANGED <<sessions, run, next_id, last_batch, webhooks, clock>>

bulk_delete_products(q) == begin_bulk(q) \/ finish_bulk(q)

----------------------------------------------------------------------------
(* The webhook management surface: test_webhook and update_webhook.        *)

Hook(name, url, event_type, is_active) ==
    [name |-> name, url |-> url, event_type |-> event_type,
     is_active |-> is_active,
     last_test_at |-> 0, last_test_status |-> "", last_test_response_time |-> 0,
     last_test_response_code |-> NoCode]

TestRequests == {"t1", "t2"}

\* 'success' if response.status_code < 400 else 'failed'
test_status(r) == IF r.code < 400 THEN "success" ELSE "failed"

\* Mutant: the response code of the attempt is not stored.
tested_without_code(webhook, r, now) ==
    [webhook EXCEPT
        !.last_test_at = now,
        !.last_test_status = IF r.raised THEN "failed" ELSE test_status(r),
        !.last_test_response_time = r.time]

\* The four assignments to the row in memory, in the try branch (a response
\* came) and in the except branch (requests raised).
tested(webhook, r, now) ==
    [webhook EXCEPT
        !.last_test_at = now,
        !.last_test_status = IF r.raised THEN "failed" ELSE test_status(r),
        !.last_test_response_time = r.time,
        !.last_test_response_code = IF r.raised THEN NoCode ELSE r.code]

\* test_webhook up to requests.post: the row is read.  Http404 of
\* get_object_or_404 is caught by the view's "except Exception".
begin_test(q) ==
    /\ q \notin DOMAIN api
    /\ \E id \in 1..(Cardinality(DOMAIN webhooks) + 1) :
         IF id \notin DOMAIN webhooks
         THEN api' = Put(api, q, [op |-> "test", data |-> id, pc |-> "done",
                                  response |-> 500])
         ELSE api' = Put(api, q, [op |-> "test", data |-> id,
                                  obj |-> webhooks[id], pc |-> "post",
                                  response |-> 0])
    /\ UNCHANGED <<sessions, run, products, next_id, events, last_batch,
                   faults_left>>
    /\ UNCHANGED hooks

\* requests.post returns or raises; the time is read and the four fields
\* are set on the row in memory.
post_test(q) ==
    /\ q \in DOMAIN api /\ api[q].op = "test" /\ api[q].pc = "post"
    /\ \E r \in Responses(api[q].obj.url) :
         /\ clock' = clock + 1
         /\ api' = [api EXCEPT
               ![q] = [op |-> "test", data |-> @.data,
                       obj |-> tested(@.obj, r, clock + 1),
                       got |-> r, at |-> clock + 1, pc |-> "save",
                       response |-> 0]]
    /\ UNCHANGED <<sessions, run, products, next_id, events, last_batch,
                   faults_left, webhooks, deliveries, last_trigger>>

\* The test requests that have saved their result.
Saved == {q \in DOMAIN api : api[q].op = "test" /\ api[q].pc = "done"
                               /\ api[q].response = 200}

\* webhook.save(), which writes every field of the row read earlier, and
\* the response: success and status_code, or the error.
save_test(q) ==
    /\ q \in DOMAIN api /\ api[q].op = "test" /\ api[q].pc = "save"
    /\ webhooks' = [webhooks EXCEPT ![api[q].data] = api[q].obj]
    /\ api' = [api EXCEPT
          ![q] = [op |-> "test", data |-> @.data, obj |-> @.obj, got |-> @.got,
                  at |-> @.at, pc |-> "done", response |-> 200,
                  success |-> ~@.got.raised,
                  status_code |-> @.got.code,
                  saved |-> Cardinality(Saved) + 1]]
    /\ UNCHANGED <<sessions, run, products, next_id, events, last_batch,
                   faults_left, deliveries, last_trigger, clock>>

test_webhook(q) == begin_test(q) \/ post_test(q) \/ save_test(q)

\* The bodies of the update_webhook requests: the row and the keys set.
HookUpdates ==
    { [id |-> 3, key |-> "is_active", value |-> TRUE],
      [id |-> 2, key |-> "is_active", value |-> FALSE] }

\* update_webhook: the row is read, the fields present in the body are set
\* and the row is saved.
update_webhook ==
    /\ \E u \in HookUpdates :
         /\ u.id \in DOMAIN webhooks
         /\ webhooks[u.id].is_active # u.value
         /\ webhooks' = [webhooks EXCEPT ![u.id].is_active = u.value]
    /\ UNCHANGED <<sessions, run, products, next_id, events, api, last_batch,
                   faults_left, deliveries, last_trigger, clock>>

----------------------------------------------------------------------------
(* Specification: one upload and its ingestion run.                        *)

InitialStores == { {}, {OldA1} }

NoBatch == [called |-> FALSE, batch |-> <<>>, fault |-> "none",
            before |-> {}, after |-> {}, returned |-> 0]

InitWith(stores, faults) ==
    /\ sessions = EmptyMap
    /\ run = EmptyMap
    /\ products \in stores
    /\ next_id = Cardinality(products) + 1
    /\ events = EmptyBag
    /\ api = EmptyMap
    /\ last_batch = NoBatch
    /\ faults_left = faults
    /\ deliveries = {}
    /\ last_trigger = NoTrigger
    /\ clock = 0

Init ==
    /\ InitWith(InitialStores, MaxFaults)
    /\ webhooks = EmptyMap

Next ==
    \/ upload_csv("s1", Files)
    \/ process_csv_file("s1")

Spec == Init /\ [][Next]_vars

----------------------------------------------------------------------------
(* Specification: the same file submitted again after its first run ended  *)
(* completed, with no other writer of the Product table.                   *)

TwiceLines ==
    { Line(" a1", "Widget", "5.00", ""),
      Line("A1", "Widget2", "9.99", "new"),
      Line("a1", "Widget2", "-1", ""),
      Line("b2", "Gadget", "100000000", "") }

TwiceFiles == SeqsUpTo(TwiceLines, MaxRows)

MaxTwiceFaults == 1

\* upload_csv of the file of session first, once that run has ended completed.
resubmit(s, first) ==
    /\ first \in DOMAIN run /\ run[first].pc = "done"
    /\ sessions[first].status = "completed"
    /\ s \notin DOMAIN sessions
    /\ accept(s, run[first].content, products)
    /\ UNCHANGED <<products, next_id, events, api, last_batch, faults_left>>
    /\ UNCHANGED hooks

InitTwice ==
    /\ InitWith(InitialStores, MaxTwiceFaults)
    /\ webhooks = EmptyMap

NextTwice ==
    \/ upload_csv("s1", TwiceFiles)
    \/ process_csv_file("s1")
    \/ resubmit("s2", "s1")
    \/ process_csv_file("s2")

SpecTwice == InitTwice /\ [][NextTwice]_vars

----------------------------------------------------------------------------
(* Specification: two ingestion runs and the single-record API racing on   *)
(* the Product table.                                                      *)

RaceFiles ==
    { << Line(" a1", "Widget", "5.00", ""),
         Line("b2", "Gadget", "9.99", None) >>,
      << Line("A1", "Widget2", "9.99", "new"),
         Line("b2", "Gadget", "9.99", ""),
         BadLine >> }

MaxRaceFaults == 1

InitRace ==
    /\ InitWith({{OldA1}}, MaxRaceFaults)
    /\ webhooks = EmptyMap

NextRace ==
    \/ \E s \in SessionIds : upload_csv(s, RaceFiles)
    \/ \E s \in SessionIds : process_csv_file(s)
    \/ \E q \in CreateRequests : create_product(q)
    \/ \E q \in UpdateRequests : update_product(q)

SpecRace == InitRace /\ [][NextRace]_vars

----------------------------------------------------------------------------
(* Specification: create_product and an ingestion run publishing to a      *)
(* table of webhooks that update_webhook changes, with the delivery        *)
(* threads.                                                                *)

InitialHooks ==
    1 :> Hook("h1", "down", "product_created", TRUE) @@
    2 :> Hook("h2", "up", "product_created", TRUE) @@
    3 :> Hook("h3", "up", "product_created", FALSE) @@
    4 :> Hook("h4", "down", "bulk_import_completed", TRUE)

HookFiles ==
    { << Line(" a1", "Widget", "5.00", ""),
         Line("b2", "Gadget", "9.99", None) >>,
      << Line("b2", "Gadget", "abc", ""),
         Line("b2", "Gadget", "9.99", "") >> }

MaxHookFaults == 1

InitDispatch ==
    /\ InitWith({{OldA1}}, MaxHookFaults)
    /\ webhooks = InitialHooks

NextDispatch ==
    \/ upload_csv("s1", HookFiles)
    \/ process_csv_file("s1")
    \/ \E q \in CreateRequests : create_product(q)
    \/ update_webhook
    \/ send_webhook_notification

SpecDispatch == InitDispatch /\ [][NextDispatch]_vars

----------------------------------------------------------------------------
(* Specification: the single-record API, create_product, update_product    *)
(* and delete_product racing on the Product table.                         *)

MaxApiFaults == 1

InitApi ==
    /\ InitWith({{OldA1}}, MaxApiFaults)
    /\ webhooks = InitialHooks

NextApi ==
    \/ \E q \in CreateRequests : create_product(q)
    \/ \E q \in UpdateRequests : update_product(q)
    \/ \E q \in DeleteRequests : delete_product(q)

SpecApi == InitApi /\ [][NextApi]_vars

----------------------------------------------------------------------------
(* Specification: overlapping test deliveries on the table of webhooks.    *)

InitTest ==
    /\ InitWith({{}}, 0)
    /\ webhooks = InitialHooks

NextTest == \E q \in TestRequests : test_webhook(q)

SpecTest == InitTest /\ [][NextTest]_vars

----------------------------------------------------------------------------
(* Specification: submissions through upload_csv, their ingestion runs and *)
(* a poller.                                                               *)

UploadFiles ==
    { <<>>,
      << Line(" a1", "Widget", "5.00", ""),
         Line("b2", "Gadget", "abc", ""),
         Line("A1", "Widget2", "9.99", "new") >> }

MaxUploadFaults == 1

InitUpload ==
    /\ InitWith({{}}, MaxUploadFaults)
    /\ webhooks = EmptyMap

NextUpload ==
    \/ \E q \in UploadRequests : upload_request(q, UploadFiles)
    \/ \E s \in SessionIds : process_csv_file(s)
    \/ \E q \in PollRequests : get_progress(q)

SpecUpload == InitUpload /\ [][NextUpload]_vars

----------------------------------------------------------------------------
(* Specification: one ingestion run on files whose rows share identifiers. *)

SameLines ==
    { Line(" a1", "Widget", "5.00", ""),
      Line("A1", "Widget2", "9.99", "new"),
      Line("a1", "Big", "100000000", ""),
      Line("b2", "Gadget", "9.99", None) }

SameFiles == SeqsUpTo(SameLines, MaxRows)

MaxSameFaults == 1

InitSame ==
    /\ InitWith(InitialStores, MaxSameFaults)
    /\ webhooks = EmptyMap

NextSame ==
    \/ upload_csv("s1", SameFiles)
    \/ process_csv_file("s1")

SpecSame == InitSame /\ [][NextSame]_vars

----------------------------------------------------------------------------
(* Specification: test deliveries racing with update_webhook.              *)

InitEdit ==
    /\ InitWith({{}}, 0)
    /\ webhooks = InitialHooks

NextEdit ==
    \/ \E q \in TestRequests : test_webhook(q)
    \/ update_webhook

SpecEdit == InitEdit /\ [][NextEdit]_vars

----------------------------------------------------------------------------
(* Specification: delete_product, delete_selected_products and             *)
(* bulk_delete_products racing on the Product table.                       *)

MaxDeleteFaults == 1

InitDelete ==
    /\ InitWith({{OldA1, OldB2}}, MaxDeleteFaults)
    /\ webhooks = InitialHooks

NextDelete ==
    \/ \E q \in DeleteRequests : delete_product(q)
    \/ \E q \in SelectedRequests : delete_selected_products(q)
    \/ \E q \in BulkRequests : bulk_delete_products(q)

SpecDelete == InitDelete /\ [][NextDelete]_vars

----------------------------------------------------------------------------
(* Specification: two create_product requests racing on the Product table, *)
(* and the deliveries of their events.                                     *)

RacingCreates == {"c1", "c2"}

MaxCreateFaults == 1

InitCreate ==
    /\ InitWith(InitialStores, MaxCreateFaults)
    /\ webhooks = InitialHooks

NextCreate ==
    \/ \E q \in RacingCreates : create_product(q)
    \/ send_webhook_notification

SpecCreate == InitCreate /\ [][NextCreate]_vars

----------------------------------------------------------------------------
(* Properties of the ingestion run.                                        *)

Done(s) == s \in DOMAIN run /\ run[s].pc = "done"

\* The records of a file that csv.DictReader yields.
Yielded(content) == {j \in 1..Len(content) : content[j].csv = "row"}
ValidRows(content) ==
    {j \in Yielded(content) : validate_row(content[j]) = "valid"}
FailingRows(content) ==
    {j \in Yielded(content) : validate_row(content[j]) # "valid"}

\* A record the store accepts when it is applied on its own.
IndependentlyValid(data) == FitsColumn(data.price)

\* C1: in every persisted state of a session (creation, each checkpoint,
\* finalization, failure) success_count + error_count = processed_rows.
C1_CountersAddUp ==
    \A s \in DOMAIN sessions :
        sessions[s].success_count + sessions[s].error_count
            = sessions[s].processed_rows

\* C2: the persisted status only moves pending -> processing,
\* processing -> completed or processing -> failed; completed and failed
\* are never left.
C2_StatusTransitions ==
    [][\A s \in DOMAIN sessions :
          \/ sessions'[s].status = sessions[s].status
          \/ <<sessions[s].status, sessions'[s].status>> \in
                { <<"pending", "processing">>,
                  <<"processing", "completed">>,
                  <<"processing", "failed">> }]_vars

\* C3: a session whose persisted status is completed has
\* processed_rows = total_rows, whatever number of rows the reader yielded.
C3_CompletedProcessedAll ==
    \A s \in DOMAIN sessions :
        sessions[s].status = "completed"
            => sessions[s].processed_rows = sessions[s].total_rows

\* C3 witness: a completed session whose loop counted fewer rows than
\* total_rows (the file held a blank line).
C3_Witness ==
    \E s \in DOMAIN sessions :
        /\ sessions[s].status = "completed"
        /\ run[s].processed_count < sessions[s].total_rows
        /\ run[s].processed_count > 0

\* C4: a run during which no read or write of the session record raised
\* ends with the session completed.
C4_EndsCompleted ==
    \A s \in DOMAIN run :
        (Done(s) /\ ~run[s].session_fault) => sessions[s].status = "completed"

\* C5: from one persisted state of a session to the next, none of
\* processed_rows, success_count and error_count decreases.
C5_CountersMonotonic ==
    [][\A s \in DOMAIN sessions :
          /\ sessions'[s].processed_rows >= sessions[s].processed_rows
          /\ sessions'[s].success_count >= sessions[s].success_count
          /\ sessions'[s].error_count >= sessions[s].error_count]_vars

\* C5 witness: a session marked failed after a checkpoint had persisted
\* non-zero counters.
C5_Witness ==
    \E s \in DOMAIN sessions :
        /\ sessions[s].status = "failed"
        /\ sessions[s].processed_rows > 0
        /\ sessions[s].success_count > 0
        /\ sessions[s].error_count > 0

\* C6: process_batch returns the number of records of the batch it
\* persisted, and never more than the batch holds.
C6_ReturnsPersistedCount ==
    last_batch.called =>
        /\ last_batch.returned <= Len(last_batch.batch)
        /\ last_batch.returned =
              Cardinality({i \in 1..Len(last_batch.batch) :
                              IndependentlyValid(last_batch.batch[i])})

\* The last independently valid record of a batch for an identifier.
LastFor(batch, sku) ==
    LET is == {i \in 1..Len(batch) :
                  batch[i].sku = sku /\ IndependentlyValid(batch[i])}
    IN  batch[CHOOSE i \in is : \A k \in is : k <= i]

\* C7: when the atomic attempt fails as a whole, every independently valid
\* record of the batch is in the store with the batch's values and the
\* count returned is the number of independently valid records.
C7_FallbackAppliesEach ==
    (last_batch.called /\ last_batch.fault # "none") =>
        /\ \A i \in 1..Len(last_batch.batch) :
              IndependentlyValid(last_batch.batch[i]) =>
                 \E p \in last_batch.after :
                    LET d == LastFor(last_batch.batch, last_batch.batch[i].sku)
                    IN  /\ p.sku = d.sku
                        /\ p.name = d.name
                        /\ p.price = d.price
                        /\ p.description = d.description
                        /\ p.active = d.active
        /\ last_batch.returned =
              Cardinality({i \in 1..Len(last_batch.batch) :
                              IndependentlyValid(last_batch.batch[i])})

\* C10: with a healthy store a completed session has success_count = the
\* number of rows that pass validation and error_count = the number of rows
\* that fail it.
C10_CountsMatchValidation ==
    \A s \in DOMAIN run :
        (Done(s) /\ ~run[s].faulted /\ sessions[s].status = "completed") =>
            /\ sessions[s].success_count = Cardinality(ValidRows(run[s].content))
            /\ sessions[s].error_count = Cardinality(FailingRows(run[s].content))

\* The entries of an error log that are not the overflow marker.
Entries(log) == {i \in 1..Len(log) : log[i].reason # "more"}

\* C11: the error log of a completed session holds the first
\* min(n, error_log_cap) error entries of the run in row order, then exactly
\* one overflow marker stating n - error_log_cap when n > error_log_cap and
\* no marker otherwise, where n = error_count is the number of row errors.
C11_ErrorLogCapped ==
    \A s \in DOMAIN sessions :
        sessions[s].status = "completed" =>
            LET n == sessions[s].error_count
                log == sessions[s].error_log
                kept == IF n < error_log_cap THEN n ELSE error_log_cap
            IN  /\ n = Len(run[s].errors)
                /\ Entries(log) = 1..kept
                /\ \A i \in 1..kept : log[i] = run[s].errors[i]
                /\ \A i, j \in 1..kept : i < j => log[i].row <= log[j].row
                /\ n > error_log_cap =>
                      /\ Len(log) = kept + 1
                      /\ log[kept + 1] = [row |-> 0, reason |-> "more",
                                          value |-> n - error_log_cap]
                /\ n <= error_log_cap => Len(log) = kept

\* C11 witness: a completed session with more row errors than the cap.
C11_Witness ==
    \E s \in DOMAIN sessions :
        /\ sessions[s].status = "completed"
        /\ sessions[s].error_count > error_log_cap
        /\ Len(sessions[s].error_log) = error_log_cap + 1

\* C12: every run that has started reaches a persisted terminal status; a
\* run over a finite file ends, so a run that has ended has left its session
\* completed or failed.
C12_EndsTerminal ==
    \A s \in DOMAIN run :
        Done(s) => sessions[s].status \in {"completed", "failed"}

\* C13: when a failure reaches the top-level handler of process_csv_file,
\* the handler leaves the persisted status failed with the failure reason
\* as the error log.
C13_HandlerMarksFailed ==
    [][\A s \in DOMAIN run :
          (run[s].pc = "handler" /\ run'[s].pc = "done") =>
              /\ sessions'[s].status = "failed"
              /\ sessions'[s].error_log =
                    <<[row |-> 0, reason |-> "failed", value |-> ""]>>]_vars

\* The bulk_import_completed events published for a session.
CompletedEvents(s) ==
    {e \in BagToSet(events) : e.kind = "bulk_import_completed" /\ e.key = s}

\* C14: a run that ends completed has published exactly one
\* bulk_import_completed event, published once the completed status and the
\* final counters were persisted and carrying the persisted summary; a run
\* that ends failed has published none.
C14_OneCompletedEvent ==
    \A s \in DOMAIN run :
        /\ \A e \in CompletedEvents(s) :
              /\ CopiesIn(e, events) = 1
              /\ sessions[s].status = "completed"
              /\ e.data = summary_of(sessions[s])
        /\ Done(s) =>
              /\ sessions[s].status = "completed"
                    => Cardinality(CompletedEvents(s)) = 1
              /\ sessions[s].status = "failed" => CompletedEvents(s) = {}

\* C24: a run on a file without data rows (nothing after the header but
\* blank lines, if anything) that met no fault ends Completed with
\* total_rows, processed_rows, success_count, error_count and the progress
\* percentage all 0 and an empty error log, and process_batch is not called.
C24_EmptyFileCompletes ==
    \A s \in DOMAIN run :
        /\ Done(s) /\ ~run[s].faulted
        /\ \A j \in 1..Len(run[s].content) : run[s].content[j].csv = "blank"
        => /\ sessions[s].status = "completed"
           /\ sessions[s].total_rows = 0
           /\ sessions[s].processed_rows = 0
           /\ sessions[s].success_count = 0
           /\ sessions[s].error_count = 0
           /\ sessions[s].error_log = <<>>
           /\ progress_percentage(sessions[s]) = 0
           /\ ~last_batch.called

\* The lines of a file that go through the row loop and pass validation.
PassesValidation(line) == line.csv = "row" /\ validate_row(line) = "valid"

\* The records of the valid rows of a file, in file order.
RECURSIVE ValidRecords(_)
ValidRecords(content) ==
    IF content = <<>> THEN <<>>
    ELSE IF PassesValidation(Head(content))
    THEN <<product_data(Head(content))>> \o ValidRecords(Tail(content))
    ELSE ValidRecords(Tail(content))

\* C25: the pending batch never holds more than batch_size records and
\* holds fewer whenever the loop goes on to the next row; in a run whose
\* session is Completed the records given to process_batch, flush after
\* flush, are the valid rows of the file, each once and in file order, and
\* success_count is the sum of the counts process_batch returned.
C25_BatchesCoverValidRows ==
    \A s \in DOMAIN run :
        /\ Len(run[s].batch) <= batch_size
        /\ run[s].pc \in {"loop", "checkpoint", "checkpoint_exc"} =>
               Len(run[s].batch) < batch_size
        /\ sessions[s].status = "completed" =>
               /\ run[s].handed = ValidRecords(run[s].content)
               /\ sessions[s].success_count = run[s].returned

\* A completed run that flushed a full batch inside the loop and the
\* remaining record after it.
C25_Witness ==
    \E s \in DOMAIN run :
        /\ sessions[s].status = "completed"
        /\ Len(run[s].handed) = batch_size + 1
        /\ run[s].returned = batch_size + 1

\* C26: the loop has counted every record it consumed once; while the
\* session is Processing and no read or write of it has failed, between
\* two rows the stored processed_rows is the largest multiple of the
\* checkpoint interval not above the number of records consumed.
C26_CheckpointEveryInterval ==
    \A s \in DOMAIN run :
        LET r == run[s]
            consumed == Cardinality({j \in Yielded(r.content) : j <= r.idx})
        IN  /\ r.processed_count = consumed
            /\ /\ ~r.session_fault
               /\ sessions[s].status = "processing"
               /\ r.pc \in {"loop", "final_flush", "finalize"}
               => sessions[s].processed_rows =
                      (consumed \div checkpoint_every) * checkpoint_every

\* A checkpoint saved on an error path, one record further on.
C26_Witness ==
    \E s \in DOMAIN run :
        /\ run[s].pc = "loop" /\ ~run[s].session_fault
        /\ run[s].processed_count = checkpoint_every + 1
        /\ run[s].error_count = checkpoint_every + 1
        /\ sessions[s].status = "processing"
        /\ sessions[s].processed_rows = checkpoint_every

\* The rows of a sequence of records that carry the identifier sku.
RowsOf(records, sku) == {i \in 1..Len(records) : records[i].sku = sku}

\* The last record of the sequence that carries the identifier sku.
LastRecord(records, sku) ==
    records[CHOOSE i \in RowsOf(records, sku) :
                \A k \in RowsOf(records, sku) : k <= i]

\* C27: after a completed run that met no fault, for every identifier that
\* several valid rows of the file carry, the stored record has the name,
\* the amount and the description of the last of these rows.
C27_LastRowWins ==
    \A s \in DOMAIN run :
        Done(s) /\ sessions[s].status = "completed" /\ ~run[s].faulted =>
            LET records == ValidRecords(run[s].content)
            IN  \A i \in 1..Len(records) :
                    Cardinality(RowsOf(records, records[i].sku)) >= 2 =>
                        \E p \in products :
                            LET d == LastRecord(records, records[i].sku)
                            IN  /\ p.sku = d.sku
                                /\ p.name = d.name
                                /\ p.price = d.price
                                /\ p.description = d.description

----------------------------------------------------------------------------
(* Properties of the Product table.                                        *)

\* A row of the table without its primary key.
Content(store) ==
    {[sku |-> p.sku, name |-> p.name, price |-> p.price,
      description |-> p.description, active |-> p.active] : p \in store}

SameNormalizedSku(store, sku) == {p \in store : upper(p.sku) = upper(sku)}

\* C8: no two rows of the Product table have the same upper-cased
\* identifier, and after a process_batch call every independently valid
\* record of the batch is held by the one row with its upper-cased
\* identifier: the row that had it before the call when there was one.
C8_UniqueNormalizedSku ==
    /\ \A p, q \in products : upper(p.sku) = upper(q.sku) => p = q
    /\ last_batch.called =>
          \A i \in 1..Len(last_batch.batch) :
             LET d == last_batch.batch[i]
                 old == SameNormalizedSku(last_batch.before, d.sku)
                 new == SameNormalizedSku(last_batch.after, d.sku)
             IN  IndependentlyValid(d) =>
                    /\ Cardinality(new) = 1
                    /\ \A p \in new :
                          /\ p.name = LastFor(last_batch.batch, d.sku).name
                          /\ p.price = LastFor(last_batch.batch, d.sku).price
                          /\ p.description =
                                LastFor(last_batch.batch, d.sku).description
                          /\ p.active
                    /\ \A o \in old : \E p \in new : p.id = o.id

\* C8 witness: the row " a1" of an upload has updated the stored record A1,
\* and a create_product for B2 that passed its existence test lost the race
\* against an ingestion run that created B2.
C8_Witness ==
    /\ \E p \in products : p.id = 1 /\ p.sku = "A1" /\ p.name = "Widget"
    /\ \E p \in products : p.sku = "B2" /\ p.name = "Gadget"
    /\ "c1" \in DOMAIN api
    /\ api["c1"].pc = "done" /\ api["c1"].response = 500
    /\ api["c1"].obj.sku = "B2" /\ api["c1"].obj.id = 0
    /\ \A s \in SessionIds : Done(s)

\* C9: when a file is ingested again after its first run completed, with no
\* other writer, the completed second run leaves the Product table as the
\* first run left it: the same rows with the same values.
C9_ReingestIdempotent ==
    (Done("s2") /\ sessions["s2"].status = "completed") =>
        /\ Content(products) = Content(run["s2"].baseline)
        /\ Cardinality(products) = Cardinality(run["s2"].baseline)

\* C9 witness: a completed second run of a file with two valid rows for one
\* identifier, whose batch went through the per-record fallback.
C9_Witness ==
    /\ Done("s2") /\ sessions["s2"].status = "completed"
    /\ Cardinality(ValidRows(run["s2"].content)) >= 2
    /\ run["s2"].faulted
    /\ last_batch.fault = "commit"
    /\ \E p \in products : p.sku = "A1" /\ p.name = "Widget2"
    /\ run["s1"].baseline = {}

----------------------------------------------------------------------------
(* Properties of the event dispatcher.                                     *)

\* The delivery threads started by trigger_webhooks call number no.
StartedBy(no) == {d \in deliveries : d.no = no}

\* A delivery attempt that failed: requests raised, or the response is not
\* a 2xx.
FailedAttempt(d) ==
    \/ d.state = "failed"
    \/ d.state = "delivered" /\ ~(d.code >= 200 /\ d.code < 300)

\* C15: a trigger_webhooks call that returns has started exactly one
\* delivery for each webhook that was active and registered for the kind
\* when it looked the table up; no call starts a delivery for another
\* webhook, and no webhook ever has a second delivery for the same call,
\* also after its delivery failed.
C15_OneAttemptPerSubscription ==
    LET lookup == last_trigger.table
        wanted == {h \in DOMAIN lookup :
                      /\ lookup[h].event_type = last_trigger.kind
                      /\ lookup[h].is_active}
    IN  /\ last_trigger.no > 0 =>
              /\ {d.hook : d \in StartedBy(last_trigger.no)} \subseteq wanted
              /\ ~last_trigger.raised =>
                    {d.hook : d \in StartedBy(last_trigger.no)} = wanted
        /\ \A d, e \in deliveries :
              (d.no = e.no /\ d.hook = e.hook) => d = e
        /\ \A d \in deliveries : d.no <= last_trigger.no

\* C15 witness: a product_created call found webhooks 1, 2 and 3 (webhook
\* 3 activated beforehand); webhook 2 was deactivated after the lookup and
\* still got its delivery, and the delivery to webhook 1 has failed.
C15_Witness ==
    /\ last_trigger.kind = "product_created" /\ ~last_trigger.raised
    /\ last_trigger.started = {1, 2, 3}
    /\ ~webhooks[2].is_active
    /\ \E d \in StartedBy(last_trigger.no) : d.hook = 1 /\ d.state = "failed"
    /\ \E d \in StartedBy(last_trigger.no) : d.hook = 2 /\ d.state = "delivered"

\* C16: when a delivery started by trigger_webhooks fails, the failure is
\* recorded in the diagnostics of its webhook.
C16_FailureRecorded ==
    [][\A d \in deliveries' \ deliveries :
          FailedAttempt(d) =>
              /\ webhooks'[d.hook].last_test_status = "failed"
              /\ webhooks'[d.hook].last_test_response_code = d.code
              /\ webhooks'[d.hook].last_test_at # webhooks[d.hook].last_test_at]_vars

\* C17: a publishing operation returns with its deliveries still to be
\* made, the end of a delivery changes nothing but the delivery, and with
\* no fault of the store a create_product that stored its record answers
\* 200 and an ingestion run ends completed, whatever the deliveries do.
C17_PublishIgnoresDelivery ==
    [][/\ \A d \in deliveries' \ deliveries :
             d.no > last_trigger.no => d.state = "started"
       /\ (\E d \in deliveries' \ deliveries : d.state # "started") =>
             UNCHANGED <<sessions, run, products, events, api>>
       /\ \A q \in DOMAIN api' :
             (/\ api'[q].op = "create" /\ api'[q].pc = "done"
              /\ api'[q].obj.id # 0 /\ faults_left' = MaxHookFaults)
                => api'[q].response = 200
       /\ \A s \in DOMAIN run' :
             (run'[s].pc = "done" /\ ~run'[s].faulted)
                => sessions'[s].status = "completed"]_vars

\* C17 witness: create_product answered 200 and the run ended completed,
\* and the deliveries to their unreachable subscribers have failed.
C17_Witness ==
    /\ "c1" \in DOMAIN api /\ api["c1"].response = 200
    /\ Done("s1") /\ sessions["s1"].status = "completed"
    /\ \E d \in deliveries :
          d.kind = "product_created" /\ d.hook = 1 /\ d.state = "failed"
    /\ \E d \in deliveries :
          d.kind = "bulk_import_completed" /\ d.hook = 4 /\ d.state = "failed"

----------------------------------------------------------------------------
(* Properties of the test deliveries.                                      *)

\* The test deliveries on webhook h that have ended, and the one that ended
\* last.
TestsOf(h) == {q \in Saved : api[q].data = h}

LastTest(h) == CHOOSE q \in TestsOf(h) : \A u \in TestsOf(h) :
                                            api[u].saved <= api[q].saved

C19_SuccessOnly2xx ==
    \A h \in DOMAIN webhooks :
        TestsOf(h) # {} =>
            LET a == api[LastTest(h)]
            IN  webhooks[h].last_test_status =
                    IF ~a.got.raised /\ a.got.code >= 200 /\ a.got.code < 300
                    THEN "success" ELSE "failed"

----------------------------------------------------------------------------
(* Properties of the events of the single-record API.                      *)

\* The event kind that trigger_webhooks is given by each view.
KindOf(op) ==
    CASE op = "create" -> "product_created"
      [] op = "update" -> "product_updated"
      [] op = "delete" -> "product_deleted"

\* The requests that return in this step.
Returning == {q \in DOMAIN api' : q \notin DOMAIN api \/ api[q].pc # "done"}
                 \cap {q \in DOMAIN api' : api'[q].pc = "done"}

\* The mutation of request r is in the table.
Committed(r, table) ==
    IF r.op = "delete"
    THEN ~\E p \in table : p.id = r.obj.id
    ELSE r.obj \in table

\* The request r has to be rejected on the table it finds: a required
\* field is missing, the amount is no amount or is negative, or the
\* identifier belongs to another record.
MustReject(r, table) ==
    CASE r.op = "create" ->
           \/ strip(r.data.sku) = "" \/ strip(r.data.name) = ""
           \/ strip(r.data.price) = ""
           \/ ~Decimal(strip(r.data.price)).ok
           \/ Decimal(strip(r.data.price)).units < 0
           \/ \E p \in table : p.sku = upper(strip(r.data.sku))
      [] r.op = "update" ->
           \E p \in table :
             /\ p.id = r.id
             /\ \/ /\ "price" \in r.data.keys
                   /\ \/ ~Decimal(r.data.price).ok
                      \/ Decimal(r.data.price).units < 0
                \/ /\ "sku" \in r.data.keys
                   /\ upper(strip(r.data.sku)) # p.sku
                   /\ \E o \in table : o.sku = upper(strip(r.data.sku))
      [] OTHER -> FALSE

\* C20: a create, update or delete that answers success has published
\* exactly one event of its kind, carrying its record, in the step that
\* committed the mutation to the table; no other step publishes a product
\* event; a request with a missing field, an invalid amount or an
\* identifier already used, and every request answered with status 400,
\* does not answer success and leaves the table and the published events
\* as they were.
C20_OneEventPerOperation ==
    [][ /\ \A q \in Returning :
             LET r == api'[q]
             IN  /\ r.response = 200 =>
                       /\ events' = events (+) SetToBag(
                              {product_event(KindOf(r.op), r.obj)})
                       /\ Committed(r, products')
                 /\ MustReject(r, products) \/ r.response = 400 =>
                       /\ r.response # 200
                       /\ UNCHANGED <<products, events, deliveries>>
                 /\ r.response # 200 => events' = events
        /\ events' # events => \E q \in Returning : api'[q].response = 200
      ]_vars

\* The create with a negative amount is rejected after the delete removed
\* the record that had its identifier, and the update and the delete have
\* each published their event.
C20_Witness ==
    /\ {"c1", "u1", "d1"} \subseteq DOMAIN api
    /\ api["c1"].response = 400 /\ api["c1"].data.price = "-1"
    /\ api["d1"].response = 200 /\ api["u1"].response = 200
    /\ ~sku_exists(products, "A1")
    /\ BagCardinality(events) = 2

----------------------------------------------------------------------------
(* Properties of upload_csv and get_progress.                              *)

Uploads == DOMAIN api \cap UploadRequests
Polls == DOMAIN api \cap PollRequests

\* C21: a submission that upload_csv has answered with an error has no
\* import session in the table and no ingestion run.
C21_ErrorLeavesNoSession ==
    \A q \in Uploads :
        api[q].pc = "done" /\ api[q].response # 200 =>
            /\ api[q].session_id \notin DOMAIN sessions
            /\ api[q].session_id \notin DOMAIN run

\* C22: the answer of a poll carries the status, the counters and the
\* error log of the one record the table held when the poll read it.
C22_PollReadsOneRecord ==
    [][ \A q \in PollRequests :
            q \notin DOMAIN api /\ q \in DOMAIN api' /\ api'[q].response = 200 =>
                LET stored == sessions[api'[q].session_id]
                    got == api'[q].result
                IN  /\ got.status = stored.status
                    /\ got.processed_rows = stored.processed_rows
                    /\ got.success_count = stored.success_count
                    /\ got.error_count = stored.error_count
                    /\ got.error_log = stored.error_log
      ]_vars

\* A poll has read a checkpoint of a run that went on to complete.
C22_Witness ==
    \E q \in Polls :
        /\ api[q].response = 200
        /\ api[q].result.status = "processing"
        /\ api[q].result.processed_rows = 2
        /\ sessions[api[q].session_id].status = "completed"

\* C23: the session is in the table, Pending and with its total_rows, when
\* its run is started; a run and an acknowledged session id always have
\* their session in the table; a poll with an acknowledged session id is
\* not answered NotFound.
C23_SessionBeforeRunAndAck ==
    [][ /\ \A s \in DOMAIN run' \ DOMAIN run :
             /\ s \in DOMAIN sessions
             /\ sessions[s].status = "pending"
             /\ sessions[s].total_rows = Len(run'[s].content)
        /\ \A s \in DOMAIN run' \cup Acknowledged' : s \in DOMAIN sessions'
        /\ \A q \in DOMAIN api' \cap PollRequests :
             api'[q].acknowledged => api'[q].response = 200
      ]_vars

\* A poll with an acknowledged session id was answered while the run had
\* not yet taken its first step.
C23_Witness ==
    \E q \in Polls :
        /\ api[q].acknowledged
        /\ api[q].response = 200
        /\ api[q].result.status = "pending"
        /\ api[q].session_id \in DOMAIN run

\* What update_webhook edits in a subscription.
Settings(webhook) ==
    [name |-> webhook.name, url |-> webhook.url,
     event_type |-> webhook.event_type, is_active |-> webhook.is_active]

\* C28: the step in which a test delivery records its diagnostics leaves
\* the settings of every subscription as the table held them.
C28_TestKeepsSettings ==
    [][ \A q \in DOMAIN api :
            api[q].op = "test" /\ api[q].pc = "save" /\ api'[q].pc = "done" =>
                \A h \in DOMAIN webhooks :
                    Settings(webhooks'[h]) = Settings(webhooks[h])
      ]_vars

----------------------------------------------------------------------------
(* Properties of the events of the deletes.                                *)

\* The product_deleted events published for the record id.
DeletedEvents(id) ==
    {e \in BagToSet(events) : e.kind = "product_deleted" /\ e.data.id = id}

\* C29: at most one product_deleted event is published for a record.
C29_OneDeletedEventPerRecord ==
    \A id \in 1..next_id :
        /\ Cardinality(DeletedEvents(id)) <= 1
        /\ \A e \in DeletedEvents(id) : CopiesIn(e, events) <= 1

----------------------------------------------------------------------------
(* Properties of racing creates.                                           *)

\* The normalized identifier a create request asks for.
AskedSku(q) == upper(strip(api[q].data.sku))

\* The product_created events published for the identifier sku.
CreatedEvents(sku) ==
    {e \in BagToSet(events) : e.kind = "product_created" /\ e.key = sku}

\* The create request q has inserted its record: it was given an id.
Inserted(q) == api[q].obj.id # 0

\* C30: of two create requests for one normalized identifier that have
\* both returned, at most one has inserted a record and at most one is
\* answered success; the table holds at most one record of the identifier,
\* and the product_created events of the identifier are one for the
\* request answered success and none otherwise.
C30_OneCreateWins ==
    \A q1 \in DOMAIN api, q2 \in DOMAIN api :
        /\ q1 # q2
        /\ api[q1].op = "create" /\ api[q2].op = "create"
        /\ api[q1].pc = "done" /\ api[q2].pc = "done"
        /\ AskedSku(q1) = AskedSku(q2)
        => LET sku == AskedSku(q1)
               winners == {q \in {q1, q2} : api[q].response = 200}
           IN  /\ ~(Inserted(q1) /\ Inserted(q2))
               /\ Cardinality(winners) <= 1
               /\ \A q \in winners : Inserted(q)
               /\ Cardinality({p \in products : p.sku = sku}) <= 1
               /\ Cardinality(CreatedEvents(sku)) = Cardinality(winners)
               /\ \A e \in CreatedEvents(sku) :
                      /\ CopiesIn(e, events) = 1
                      /\ \E q \in winners : e.data = api[q].obj

\* Both requests passed the "SKU already exists" test; one was answered
\* success, the other was refused by the unique constraint.
C30_Witness ==
    /\ {"c1", "c2"} \subseteq DOMAIN api
    /\ api["c1"].pc = "done" /\ api["c2"].pc = "done"
    /\ AskedSku("c1") = "B2" /\ AskedSku("c2") = "B2"
    /\ api["c1"].response = 200 /\ Inserted("c1")
    /\ api["c2"].response = 500 /\ ~Inserted("c2")
    /\ api["c1"].data.name = "Manual" /\ api["c2"].data.name = "Manual"

====
